---- MODULE Spec2Model ----
(***************************************************************************)
(* checkurls: a producer (readWorker), a pool of checkers (checkWorker)    *)
(* and one writer (writeWorker), joined by two unbuffered channels (work,  *)
(* result) and two WaitGroups, probing every candidate URL with an         *)
(* http.Client whose CheckRedirect is one of the redirect policies.        *)
(*                                                                         *)
(* Text is modelled as sequences of one-character strings while it is      *)
(* split and trimmed, and as strings once a URL has been formatted.  A URL *)
(* value (url.URL) is the record [Scheme, Host, Path]; URLs carry no       *)
(* userinfo, query or fragment here.  A pointer that may be nil (to a URL, *)
(* a Response or a Site) is a sequence of length 0 or 1.                   *)
(***************************************************************************)
EXTENDS Integers, Sequences, FiniteSets, Bags, TLC

\* ---------------------------------------------------------------- bounds
\* Largest pool size explored (the sources use 3 and 5).
MaxPool == 2
\* Cap on the number of requests of one redirect chain.
MaxHops == 4
\* Longest chain of prior requests handed to a policy in PolicySpec.
MaxChain == 3

\* ------------------------------------------------------------- constants
errDone == "not following any more redirects"

protocols == <<"http", "https">>

NoErr == [type |-> "nil", Err |-> ""]

UrlError(e) == [type |-> "url.Error", Err |-> e]

\* ------------------------------------------------------------------ URLs
Hosts == {"a", "b"}

Paths == {"/", "/x"}

URLs == [Scheme : {"http", "https"}, Host : Hosts, Path : Paths]

U(s, h, p) == [Scheme |-> s, Host |-> h, Path |-> p]

\* url.URL.String()
URLString(u) == u.Scheme \o "://" \o u.Host \o u.Path

\* http.NewRequest's url.Parse followed by the client's check that the URL
\* names a host: <<u>> for a well-formed URL, <<>> when c.Get fails before
\* any request is sent.
ParseURL(s) ==
    IF \E u \in URLs : URLString(u) = s
    THEN <<CHOOSE u \in URLs : URLString(u) = s>>
    ELSE <<>>

\* Mutant: the candidate URL lacks its final slash.
formatURLNoPath(protocol, site) == protocol \o "://" \o site

formatURL(protocol, site) == protocol \o "://" \o site \o "/"

\* ----------------------------------------------------------- text helpers
RECURSIVE Str(_)
Str(cs) == IF cs = <<>> THEN "" ELSE Head(cs) \o Str(Tail(cs))

Cutset == {" ", "\t", "\r", "\n"}

RECURSIVE TrimLeft(_)
TrimLeft(cs) ==
    IF cs # <<>> /\ Head(cs) \in Cutset THEN TrimLeft(Tail(cs)) ELSE cs

RECURSIVE TrimRight(_)
TrimRight(cs) ==
    IF cs # <<>> /\ cs[Len(cs)] \in Cutset
    THEN TrimRight(SubSeq(cs, 1, Len(cs) - 1))
    ELSE cs

\* strings.Trim(site, " \t\r\n")
Trim(cs) == TrimRight(TrimLeft(cs))

\* bufio.Reader.ReadString('\n'): the text up to and including the first
\* newline, or all that is left together with io.EOF.
ReadString(cs) ==
    IF \E i \in 1..Len(cs) : cs[i] = "\n"
    THEN LET i == CHOOSE k \in 1..Len(cs) :
                      cs[k] = "\n" /\ \A j \in 1..(k - 1) : cs[j] # "\n"
         IN [site |-> SubSeq(cs, 1, i), err |-> FALSE,
             rest |-> SubSeq(cs, i + 1, Len(cs))]
    ELSE [site |-> cs, err |-> TRUE, rest |-> <<>>]

Digit(d) == <<"0", "1", "2", "3", "4", "5", "6", "7", "8", "9">>[d + 1]

\* fmt's %d of a non-negative int
RECURSIVE Itoa(_)
Itoa(n) == IF n < 10 THEN Digit(n) ELSE Itoa(n \div 10) \o Digit(n % 10)

\* ------------------------------------------------------ redirect policies
\* Mutant: the chain is cut once three requests have been sent.
FollowThreeRedirects(req, via) == IF Len(via) >= 3 THEN errDone ELSE ""

FollowAllRedirects(req, via) == ""

\* Mutant: the first redirect is followed, the second is not.
StopOnSecondRedirect(req, via) == IF Len(via) >= 2 THEN errDone ELSE ""

StopOnFirstRedirect(req, via) == errDone

\* Mutant: the host is compared with that of the first request of the chain.
StopOnRedirectFromFirstDomain(req, via) ==
    IF req.Host # via[1].Host THEN errDone ELSE ""

StopOnRedirectToDifferentDomain(req, via) ==
    IF req.Host # via[Len(via)].Host THEN errDone ELSE ""

\* Mutant: only the most recent request is compared.
StopOnRepeatOfLast(req, via) ==
    IF via[Len(via)] = req THEN errDone ELSE ""

StopOnCyclicRedirect(req, via) ==
    IF \E i \in 1..Len(via) : via[i] = req THEN errDone ELSE ""

Policies == {"FollowAll", "StopOnFirst", "StopOnDomainChange", "StopOnCycle"}

\* c.CheckRedirect(req, via): "" is the nil error.
CheckRedirect(p, req, via) ==
    CASE p = "FollowAll" -> FollowAllRedirects(req, via)
      [] p = "StopOnFirst" -> StopOnFirstRedirect(req, via)
      [] p = "StopOnDomainChange" -> StopOnRedirectToDifferentDomain(req, via)
      [] p = "StopOnCycle" -> StopOnCyclicRedirect(req, via)

\* ---------------------------------------------------- the remote servers
\* What a server answers to GET u: a response (status, Location header) or
\* a transport failure (the error c.Get returns).
Ok(status) == [err |-> NoErr, StatusCode |-> status, Location |-> <<>>]

Redirect(status, u) == [err |-> NoErr, StatusCode |-> status, Location |-> <<u>>]

Fail(e) == [err |-> e, StatusCode |-> 0, Location |-> <<>>]

\* Every URL answers 200.
ServerPlain == [u \in URLs |-> Ok(200)]

\* http://b/ -> 301 -> https://b/ -> 200;
\* http://a/ -> 301 -> https://a/ -> 302 -> https://b/x -> 201 with a Location.
ServerRedirect ==
    [u \in URLs |->
        CASE u = U("http", "b", "/") -> Redirect(301, U("https", "b", "/"))
          [] u = U("http", "a", "/") -> Redirect(301, U("https", "a", "/"))
          [] u = U("https", "a", "/") -> Redirect(302, U("https", "b", "/x"))
          [] u = U("https", "b", "/x") -> Redirect(201, U("https", "b", "/"))
          [] OTHER -> Ok(200)]

\* http://a/ <-> http://b/ and https://a/ <-> https://a/x redirect in a loop;
\* https://b/ answers 301 without a Location header.
ServerCycle ==
    [u \in URLs |->
        CASE u = U("http", "a", "/") -> Redirect(301, U("http", "b", "/"))
          [] u = U("http", "b", "/") -> Redirect(301, U("http", "a", "/"))
          [] u = U("https", "a", "/") -> Redirect(302, U("https", "a", "/x"))
          [] u = U("https", "a", "/x") -> Redirect(307, U("https", "a", "/"))
          [] u = U("https", "b", "/") -> Ok(301)
          [] OTHER -> Ok(200)]

\* Host a does not resolve; http://b/ redirects to it; https://b/ redirects
\* to a URL whose request fails with an error that is no url.Error.
ServerFaulty ==
    [u \in URLs |->
        CASE u.Host = "a" -> Fail(UrlError("no such host"))
          [] u = U("http", "b", "/") -> Redirect(301, U("http", "a", "/"))
          [] u = U("https", "b", "/") -> Redirect(302, U("https", "b", "/x"))
          [] u = U("https", "b", "/x") -> Fail([type |-> "other", Err |-> "EOF"])
          [] OTHER -> Ok(200)]

Servers == {ServerPlain, ServerRedirect, ServerCycle, ServerFaulty}

\* ------------------------------------------------------- the HTTP client
\* redirectBehavior of the client for a GET.
shouldRedirect(status) == status \in {301, 302, 303, 307, 308}

\* One round of the redirect loop of c.Get: send req (the chain so far is
\* reqs), and on a redirect ask the policy p about the next request.
\*   done = FALSE : the policy let the client continue with request req[1];
\*   done = TRUE  : c.Get returns (resp, err); end tells why the chain ended:
\*                  "final" (no further redirect), "halted" (the policy
\*                  returned an error) or "failed" (the transport failed).
ClientDo(p, srv, req, reqs) ==
    LET sent == Append(reqs, req)
        r == srv[req]
        resp == [Request |-> req, StatusCode |-> r.StatusCode,
                 Location |-> r.Location]
    IN  IF r.err # NoErr
        THEN [done |-> TRUE, end |-> "failed", req |-> <<>>, via |-> sent,
              resp |-> <<>>, err |-> r.err]
        ELSE IF ~shouldRedirect(r.StatusCode) \/ r.Location = <<>>
        THEN [done |-> TRUE, end |-> "final", req |-> <<>>, via |-> sent,
              resp |-> <<resp>>, err |-> NoErr]
        ELSE IF CheckRedirect(p, r.Location[1], sent) # ""
        THEN [done |-> TRUE, end |-> "halted", req |-> <<>>, via |-> sent,
              resp |-> <<resp>>,
              err |-> UrlError(CheckRedirect(p, r.Location[1], sent))]
        ELSE [done |-> FALSE, end |-> "", req |-> r.Location, via |-> sent,
              resp |-> <<>>, err |-> NoErr]

\* c.Get(site) when the URL does not parse: no request is sent.
ParseFailure ==
    [done |-> TRUE, end |-> "failed", req |-> <<>>, via |-> <<>>,
     resp |-> <<>>, err |-> UrlError("parse")]

\* ------------------------------------------------------------------ Site
\* resp.Location(): the Location header when there is one.
Location(resp) == resp.Location

\* The tail of testURL: the Site built from the response c.Get returned.
MakeSite(resp) ==
    [RequestURL |-> resp.Request, StatusCode |-> resp.StatusCode,
     ResponseURL |-> Location(resp)]

\* Mutant: the sentinel is looked for by the wrong text.
IsErrDoneByText(err) == err.type = "url.Error" /\ err.Err = "done"

\* e.Err == errDone on a url.Error.
IsErrDone(err) == err.type = "url.Error" /\ err.Err = errDone

\* Mutant: every url.Error leaves the switch by break, as errDone does.
testURLBreakAlways(resp, err) ==
    IF err.type = "other"
    THEN [site |-> <<>>, err |-> err]
    ELSE [site |-> IF resp = <<>> THEN <<>> ELSE <<MakeSite(resp[1])>>,
          err |-> NoErr]

\* testURL on what c.Get returned: (the Site, nil) or (nil, the error).
testURL(resp, err) ==
    IF err # NoErr /\ ~IsErrDone(err)
    THEN [site |-> <<>>, err |-> err]
    ELSE [site |-> <<MakeSite(resp[1])>>, err |-> NoErr]

\* Site.String()
String(s) ==
    URLString(s.RequestURL) \o "," \o Itoa(s.StatusCode) \o ","
        \o (IF s.ResponseURL # <<>> THEN URLString(s.ResponseURL[1]) ELSE "")

\* Site.String() of the older source file: the first field is
\* s.RequestUrl.Host.
String_main_go(s) ==
    s.RequestURL.Host \o "," \o Itoa(s.StatusCode) \o ","
        \o (IF s.ResponseURL # <<>> THEN URLString(s.ResponseURL[1]) ELSE "")

\* err.Error() of the error testURL returned.
ErrorLine(err) == "Get: " \o err.Err

\* ----------------------------------------------------------------- state
VARIABLES
    policy,        \* checkRedirect, the policy main hands to every checker
    server,        \* the servers' behaviour, fixed for a run
    input,         \* the text of the input source
    srcOpen,       \* whether os.Open of the input source succeeds
    poolSize,      \* the number of checkers main starts
    mainPc,        \* main: "spawn", "waitWorkers", "waitWriter", "done"
    spawned,       \* main's loop counter i
    workerGroup,   \* counter of workerGroup
    writerGroup,   \* counter of writerGroup
    rpc,           \* readWorker: "open", "read", "send", "close", "closed"
    rest,          \* readWorker: the input not yet read
    rsite,         \* readWorker: the line last read
    rprot,         \* readWorker: index into protocols of the next send
    rerr,          \* readWorker: whether the last ReadString returned io.EOF
    workClosed,    \* whether channel work is closed
    sent,          \* history: the candidate URLs handed over on work, in order
    wpc,           \* checker w: "unstarted", "idle", "probing", "sending",
                   \*            "terminated"
    wsite,         \* checker w: the candidate URL it took
    wreq,          \* checker w: the next request of c.Get (nil: no parse)
    via,           \* checker w: the requests c.Get has sent
    wres,          \* checker w: the Site testURL returned
    resultClosed,  \* whether channel result is closed
    wrpc,          \* writeWorker: "recv", "write", "exited"
    wrcur,         \* writeWorker: the Site it received
    stdout,        \* lines written to os.Stdout
    stderr,        \* lines written to os.Stderr
    log,           \* history: how the chain of each finished probe ended
    tReq,          \* PolicySpec: the current request handed to the policy
    tVia,          \* PolicySpec: the chain of prior requests
    tDecision,     \* PolicySpec: "none", then "Continue" or "Stop"
    tVariant,      \* RenderSpec: the source file whose Site.String is called
    tSite,         \* RenderSpec: the Site that is rendered
    tLine          \* RenderSpec: nil, then the line String returned

confVars == <<policy, server, input, srcOpen, poolSize>>

mainVars == <<mainPc, spawned, workerGroup, writerGroup>>

readVars == <<rpc, rest, rsite, rprot, rerr, workClosed, sent>>

checkVars == <<wpc, wsite, wreq, via, wres>>

writeVars == <<resultClosed, wrpc, wrcur>>

outVars == <<stdout, stderr, log>>

testVars == <<tReq, tVia, tDecision, tVariant, tSite, tLine>>

vars == <<confVars, mainVars, readVars, checkVars, writeVars, outVars, testVars>>

Workers == 1..MaxPool

\* The input sources explored: no hostname; one line ended by CR LF; two
\* lines, the last without a newline; a blank line before a hostname.
Inputs ==
    { <<>>,
      <<"b", "\r", "\n">>,
      <<"a", "\n", "b">>,
      <<" ", "\n", "b", "\n">> }

\* main up to the loop that starts the checkers: the writer and the reader
\* have been started, no checker has.
Start ==
    /\ mainPc = "spawn"
    /\ spawned = 0
    /\ workerGroup = 0
    /\ writerGroup = 1
    /\ rpc = "open"
    /\ rest = <<>>
    /\ rsite = <<>>
    /\ rprot = 1
    /\ rerr = FALSE
    /\ workClosed = FALSE
    /\ sent = <<>>
    /\ wpc = [w \in Workers |-> "unstarted"]
    /\ wsite = [w \in Workers |-> ""]
    /\ wreq = [w \in Workers |-> <<>>]
    /\ via = [w \in Workers |-> <<>>]
    /\ wres = [w \in Workers |-> <<>>]
    /\ resultClosed = FALSE
    /\ wrpc = "recv"
    /\ wrcur = <<>>
    /\ stdout = <<>>
    /\ stderr = <<>>
    /\ log = EmptyBag

\* No Site is being rendered on its own.
NoRender ==
    /\ tVariant = "part_000"
    /\ tSite = [RequestURL |-> U("http", "a", "/"), StatusCode |-> 200,
                ResponseURL |-> <<>>]
    /\ tLine = <<>>

\* A run of the program: a policy, the servers' behaviour, an input source
\* and a pool size.
Init ==
    /\ policy \in Policies
    /\ server \in Servers
    /\ input \in Inputs
    /\ srcOpen \in BOOLEAN
    /\ poolSize \in 1..MaxPool
    /\ Start
    /\ tReq = U("http", "a", "/")
    /\ tVia = <<>>
    /\ tDecision = "none"
    /\ NoRender

\* ------------------------------------------------------------------ main
\* Mutant: the loop runs once more than the pool size (i <= NumCheckers).
MainSpawnOneMore ==
    /\ mainPc = "spawn"
    /\ spawned' = spawned + 1
    /\ workerGroup' = workerGroup + 1
    /\ wpc' = [wpc EXCEPT ![spawned + 1] = "idle"]
    /\ mainPc' = IF spawned + 1 > poolSize \/ spawned + 1 = MaxPool
                 THEN "waitWorkers" ELSE "spawn"
    /\ UNCHANGED <<confVars, writerGroup, readVars, wsite, wreq, via, wres,
                   writeVars, outVars, testVars>>

\* One round of main's loop: workerGroup.Add(1); go checkWorker(...).
MainSpawn ==
    /\ mainPc = "spawn"
    /\ spawned < poolSize
    /\ spawned' = spawned + 1
    /\ workerGroup' = workerGroup + 1
    /\ wpc' = [wpc EXCEPT ![spawned + 1] = "idle"]
    /\ mainPc' = IF spawned + 1 = poolSize THEN "waitWorkers" ELSE "spawn"
    /\ UNCHANGED <<confVars, writerGroup, readVars, wsite, wreq, via, wres,
                   writeVars, outVars, testVars>>

\* Mutant: main does not wait for the checkers.
WorkersDoneNoWait == TRUE

\* workerGroup.Wait() returns.
WorkersDone == workerGroup = 0

\* Mutant: main does not wait for the writer.
WriterDoneNoWait == TRUE

\* writerGroup.Wait() returns.
WriterDone == writerGroup = 0

\* workerGroup.Wait(); close(result)
MainCloseResult ==
    /\ mainPc = "waitWorkers"
    /\ WorkersDone
    /\ resultClosed' = TRUE
    /\ mainPc' = "waitWriter"
    /\ UNCHANGED <<confVars, spawned, workerGroup, writerGroup, readVars,
                   checkVars, wrpc, wrcur, outVars, testVars>>

\* writerGroup.Wait(); main returns.
MainExit ==
    /\ mainPc = "waitWriter"
    /\ WriterDone
    /\ mainPc' = "done"
    /\ UNCHANGED <<confVars, spawned, workerGroup, writerGroup, readVars,
                   checkVars, writeVars, outVars, testVars>>

\* ------------------------------------------------------------ readWorker
\* Mutant: the reader returns on the error without closing work.
ReaderOpenNoClose ==
    /\ rpc = "open"
    /\ IF srcOpen
       THEN /\ rest' = input
            /\ rpc' = "read"
            /\ UNCHANGED stderr
       ELSE /\ stderr' = Append(stderr, "error getting URLs: open")
            /\ rpc' = "closed"
            /\ UNCHANGED rest
    /\ UNCHANGED <<confVars, mainVars, rsite, rprot, rerr, workClosed, sent,
                   checkVars, writeVars, stdout, log, testVars>>

\* The source is opened; when that fails the error is reported and the
\* deferred close(work) runs.
ReaderOpen ==
    /\ rpc = "open"
    /\ IF srcOpen
       THEN /\ rest' = input
            /\ rpc' = "read"
            /\ UNCHANGED <<workClosed, stderr>>
       ELSE /\ stderr' = Append(stderr, "error getting URLs: open")
            /\ workClosed' = TRUE
            /\ rpc' = "closed"
            /\ UNCHANGED rest
    /\ UNCHANGED <<confVars, mainVars, rsite, rprot, rerr, sent, checkVars,
                   writeVars, stdout, log, testVars>>

\* Mutant: the reader does not leave its loop at the end of the source.
AfterLineNoBreak(err) == "read"

\* Where the reader goes once a line has been dealt with.
AfterLine(err) == IF err THEN "close" ELSE "read"

\* site, err := lineReader.ReadString('\n'), and the test len(site) > 0.
ReaderRead ==
    /\ rpc = "read"
    /\ LET r == ReadString(rest)
       IN  /\ rest' = r.rest
           /\ rerr' = r.err
           /\ IF Len(r.site) > 0
              THEN /\ rsite' = r.site
                   /\ rprot' = 1
                   /\ rpc' = "send"
              ELSE /\ rpc' = AfterLine(r.err)
                   /\ UNCHANGED <<rsite, rprot>>
    /\ UNCHANGED <<confVars, mainVars, workClosed, sent, checkVars,
                   writeVars, outVars, testVars>>

\* The deferred close(work).
ReaderClose ==
    /\ rpc = "close"
    /\ workClosed' = TRUE
    /\ rpc' = "closed"
    /\ UNCHANGED <<confVars, mainVars, rest, rsite, rprot, rerr, sent,
                   checkVars, writeVars, outVars, testVars>>

\* ----------------------------------------------------------- checkWorker
\* The hand-off on the unbuffered channel work: the reader's
\* work <- formatURL(prot, strings.Trim(site, " \t\r\n")) meets checker w's
\* receive; w then calls testURL, whose c.Get first parses the URL.
Receive(w) ==
    /\ rpc = "send"
    /\ wpc[w] = "idle"
    /\ LET site == formatURL(protocols[rprot], Str(Trim(rsite)))
       IN  /\ wsite' = [wsite EXCEPT ![w] = site]
           /\ wreq' = [wreq EXCEPT ![w] = ParseURL(site)]
           /\ sent' = Append(sent, site)
    /\ wpc' = [wpc EXCEPT ![w] = "probing"]
    /\ IF rprot < Len(protocols)
       THEN /\ rprot' = rprot + 1
            /\ UNCHANGED <<rpc, rsite>>
       ELSE /\ rprot' = 1
            /\ rsite' = <<>>
            /\ rpc' = AfterLine(rerr)
    /\ UNCHANGED <<confVars, mainVars, rest, rerr, workClosed, via, wres,
                   writeVars, outVars, testVars>>

\* What the history records of a probe whose chain has ended.
\*   end, hops, status : why c.Get returned, after how many requests, and
\*                        the status of the response it returned (0: none);
\*   err, code          : the error testURL returned and the StatusCode of
\*                        the Site it returned (0: no Site).
LogEntry(site, s, t) ==
    [site |-> site, end |-> s.end, hops |-> Len(s.via),
     status |-> IF s.resp = <<>> THEN 0 ELSE s.resp[1].StatusCode,
     err |-> t.err,
     code |-> IF t.site = <<>> THEN 0 ELSE t.site[1].StatusCode]

\* Mutant: a checker gives up on the first probe error.
AfterErrorGiveUp == "terminated"

\* Where a checker goes once it has written a probe's error to os.Stderr:
\* on with the loop over work.
AfterError == "idle"

\* One request of checker w's c.Get.  When the chain ends, testURL returns
\* and the checker either goes on to send the Site or writes the error to
\* os.Stderr and takes the next candidate.
Hop(w) ==
    /\ wpc[w] = "probing"
    /\ Len(via[w]) < MaxHops
    /\ LET s == IF wreq[w] = <<>>
                THEN ParseFailure
                ELSE ClientDo(policy, server, wreq[w][1], via[w])
           t == testURL(s.resp, s.err)
       IN  IF ~s.done
           THEN /\ wreq' = [wreq EXCEPT ![w] = s.req]
                /\ via' = [via EXCEPT ![w] = s.via]
                /\ UNCHANGED <<wpc, wsite, wres, outVars>>
           ELSE /\ wreq' = [wreq EXCEPT ![w] = <<>>]
                /\ via' = [via EXCEPT ![w] = <<>>]
                /\ log' = log (+) SetToBag({LogEntry(wsite[w], s, t)})
                /\ IF t.err = NoErr
                   THEN /\ wres' = [wres EXCEPT ![w] = t.site]
                        /\ wpc' = [wpc EXCEPT ![w] = "sending"]
                        /\ UNCHANGED <<wsite, stdout, stderr>>
                   ELSE /\ stderr' = Append(stderr, ErrorLine(t.err))
                        /\ wpc' = [wpc EXCEPT ![w] = AfterError]
                        /\ wsite' = [wsite EXCEPT ![w] = ""]
                        /\ UNCHANGED <<wres, stdout>>
    /\ UNCHANGED <<confVars, mainVars, readVars, writeVars, testVars>>

\* The hand-off on the unbuffered channel result: checker w's result <- r
\* meets the writer's receive.
Deliver(w) ==
    /\ wpc[w] = "sending"
    /\ wrpc = "recv"
    /\ ~resultClosed
    /\ wrcur' = wres[w]
    /\ wrpc' = "write"
    /\ wpc' = [wpc EXCEPT ![w] = "idle"]
    /\ wsite' = [wsite EXCEPT ![w] = ""]
    /\ wres' = [wres EXCEPT ![w] = <<>>]
    /\ UNCHANGED <<confVars, mainVars, readVars, wreq, via, resultClosed,
                   outVars, testVars>>

\* range work ends on the closed channel; the deferred wg.Done() runs.
WorkerExit(w) ==
    /\ wpc[w] = "idle"
    /\ workClosed
    /\ wpc' = [wpc EXCEPT ![w] = "terminated"]
    /\ workerGroup' = workerGroup - 1
    /\ UNCHANGED <<confVars, mainPc, spawned, writerGroup, readVars, wsite,
                   wreq, via, wres, writeVars, outVars, testVars>>

\* ----------------------------------------------------------- writeWorker
\* os.Stdout.WriteString(r.String() + "\n")
WriterWrite ==
    /\ wrpc = "write"
    /\ stdout' = Append(stdout, String(wrcur[1]))
    /\ wrcur' = <<>>
    /\ wrpc' = "recv"
    /\ UNCHANGED <<confVars, mainVars, readVars, checkVars, resultClosed,
                   stderr, log, testVars>>

\* range result ends on the closed channel; the deferred wg.Done() runs.
WriterExit ==
    /\ wrpc = "recv"
    /\ resultClosed
    /\ wrpc' = "exited"
    /\ writerGroup' = writerGroup - 1
    /\ UNCHANGED <<confVars, mainPc, spawned, workerGroup, readVars,
                   checkVars, resultClosed, wrcur, outVars, testVars>>

\* ------------------------------------------------------- specifications
Next ==
    \/ MainSpawn
    \/ MainCloseResult
    \/ MainExit
    \/ ReaderOpen
    \/ ReaderRead
    \/ ReaderClose
    \/ \E w \in Workers : Receive(w)
    \/ \E w \in Workers : Hop(w)
    \/ \E w \in Workers : Deliver(w)
    \/ \E w \in Workers : WorkerExit(w)
    \/ WriterWrite
    \/ WriterExit

Spec == Init /\ [][Next]_vars

\* Every goroutine that can take a step eventually takes one, and a
\* hand-off that stays possible eventually happens.
Fairness ==
    /\ WF_vars(MainSpawn \/ MainCloseResult \/ MainExit)
    /\ WF_vars(ReaderOpen \/ ReaderRead \/ ReaderClose)
    /\ \A w \in Workers : WF_vars(Hop(w) \/ WorkerExit(w))
    /\ WF_vars(\E w \in Workers : Receive(w))
    /\ WF_vars(\E w \in Workers : Deliver(w))
    /\ WF_vars(WriterWrite \/ WriterExit)

\* The runs whose source has at most two lines.
InitFair == Init /\ Len(input) <= 3

FairSpec == InitFair /\ [][Next]_vars /\ Fairness

\* ------------------------------------------------- a policy on its own
\* The non-empty chains of at most MaxChain prior requests.
Chains == UNION {[1..n -> URLs] : n \in 1..MaxChain}

\* A policy, a current request and a chain of prior requests; the program
\* itself does not run.
InitPolicy ==
    /\ policy \in Policies
    /\ server = ServerPlain
    /\ input = <<>>
    /\ srcOpen = TRUE
    /\ poolSize = 1
    /\ Start
    /\ tReq \in URLs
    /\ tVia \in Chains
    /\ tDecision = "none"
    /\ NoRender

\* The client calls c.CheckRedirect(req, via): nil lets it continue, an
\* error stops it.
Decide ==
    /\ tDecision = "none"
    /\ tDecision' = IF CheckRedirect(policy, tReq, tVia) = ""
                    THEN "Continue" ELSE "Stop"
    /\ UNCHANGED <<confVars, mainVars, readVars, checkVars, writeVars,
                   outVars, tReq, tVia, tVariant, tSite, tLine>>

PolicySpec == InitPolicy /\ [][Decide]_vars

\* ------------------------------------------------- Site.String on its own
\* The Sites rendered: a status, a request URL, a response URL or nil.
Sites ==
    [RequestURL : URLs, StatusCode : {200, 301, 404},
     ResponseURL : {<<>>} \cup {<<u>> : u \in URLs}]

\* The two source files of the repository.
Variants == {"part_000", "main.go"}

\* A Site reaches writeWorker; nothing else of the program runs.
InitRender ==
    /\ policy = "StopOnFirst"
    /\ server = ServerPlain
    /\ input = <<>>
    /\ srcOpen = TRUE
    /\ poolSize = 1
    /\ Start
    /\ tReq = U("http", "a", "/")
    /\ tVia = <<>>
    /\ tDecision = "none"
    /\ tVariant \in Variants
    /\ tSite \in Sites
    /\ tLine = <<>>

\* writeWorker's r.String().
Render ==
    /\ tLine = <<>>
    /\ tLine' = << IF tVariant = "main.go" THEN String_main_go(tSite)
                   ELSE String(tSite) >>
    /\ UNCHANGED <<confVars, mainVars, readVars, checkVars, writeVars,
                   outVars, tReq, tVia, tDecision, tVariant, tSite>>

RenderSpec == InitRender /\ [][Render]_vars

\* ------------------------------------------------- the run as a function
\* The candidate URLs readWorker sends for the text cs, in order.
RECURSIVE Candidates(_)
Candidates(cs) ==
    LET r == ReadString(cs)
        here == IF Len(r.site) > 0
                THEN [i \in 1..Len(protocols) |->
                         formatURL(protocols[i], Str(Trim(r.site)))]
                ELSE <<>>
    IN  IF r.err THEN here ELSE here \o Candidates(r.rest)

\* The candidate URLs of the run.
Work == IF srcOpen THEN Candidates(input) ELSE <<>>

\* c.Get from request req on, run to its end (or to the cap on the chain).
RECURSIVE Get(_, _, _, _)
Get(p, srv, req, reqs) ==
    LET s == ClientDo(p, srv, req, reqs)
    IN  IF s.done \/ Len(s.via) >= MaxHops THEN s ELSE Get(p, srv, s.req[1], s.via)

\* c.Get(site)
GetSite(p, srv, site) ==
    IF ParseURL(site) = <<>> THEN ParseFailure
    ELSE Get(p, srv, ParseURL(site)[1], <<>>)

\* The line a probe of site puts on os.Stdout: <<line>>, or <<>> when
\* testURL returns an error.
OutputOf(p, srv, site) ==
    LET s == GetSite(p, srv, site)
        t == testURL(s.resp, s.err)
    IN  IF t.err = NoErr THEN <<String(t.site[1])>> ELSE <<>>

RECURSIVE SeqToBag(_)
SeqToBag(q) ==
    IF q = <<>> THEN EmptyBag ELSE SetToBag({Head(q)}) (+) SeqToBag(Tail(q))

RECURSIVE Flatten(_)
Flatten(qq) == IF qq = <<>> THEN <<>> ELSE Head(qq) \o Flatten(Tail(qq))

\* The lines of a run, one probe after the other in input order.
SequentialOutput ==
    Flatten([i \in 1..Len(Work) |-> OutputOf(policy, server, Work[i])])

\* The number of finished probes whose chain ended in one of the ways ends.
Ended(ends) ==
    BagCardinality([e \in {x \in BagToSet(log) : x.end \in ends} |-> log[e]])

\* The Sites on their way from testURL to os.Stdout.
InFlight ==
    Cardinality({w \in Workers : wpc[w] = "sending"})
        + (IF wrpc = "write" THEN 1 ELSE 0)

\* ---------------------------------------------------------------- claims
\* C1: whatever the pool size and the interleaving, when main returns the
\* lines on os.Stdout are, as a multiset, the lines of the successful
\* probes of the candidate URLs: none missing, none twice.
C1_SameOutputForEveryPoolSize ==
    mainPc = "done" => SeqToBag(stdout) = SeqToBag(SequentialOutput)

C1_Witness ==
    /\ mainPc = "done"
    /\ poolSize > 1
    /\ Len(stdout) = 4
    /\ stdout # SequentialOutput

\* C2: result is closed only after every checker has terminated, no checker
\* is left sending on the closed channel, and when main returns the writer
\* has exited and has written one line per successful probe.
C2_OrderedShutdown ==
    /\ resultClosed => \A w \in 1..poolSize : wpc[w] = "terminated"
    /\ mainPc = "done" =>
          /\ wrpc = "exited"
          /\ InFlight = 0
          /\ Len(stdout) = Ended({"final", "halted"})

C2_Witness ==
    /\ mainPc = "done"
    /\ Len(stdout) >= 2
    /\ Ended({"failed"}) >= 1

\* C3: the RequestURL of the Site testURL returns is the URL of the first
\* request of the chain, the candidate URL.
C3_RequestURLIsOriginal ==
    \A w \in Workers :
        wpc[w] = "sending" => <<wres[w][1].RequestURL>> = ParseURL(wsite[w])

\* The lines on os.Stderr that report a probe (not the failure to open the
\* source).
ProbeErrors ==
    Len(stderr) - (IF ~srcOpen /\ rpc # "open" THEN 1 ELSE 0)

\* C4: a chain the policy halted yields a Site with the status of the last
\* response and no error: it never adds a line to os.Stderr, and every
\* Site returned is on os.Stdout or on its way there.
C4_TruncationIsNotAnError ==
    /\ \A e \in BagToSet(log) :
          e.end = "halted" => e.err = NoErr /\ e.code = e.status /\ e.code # 0
    /\ ProbeErrors = Ended({"failed"})
    /\ Len(stdout) + InFlight = Ended({"final", "halted"})

C4_Witness ==
    /\ mainPc = "done"
    /\ \E e \in BagToSet(log) : e.end = "halted" /\ e.hops >= 2
    /\ \E e \in BagToSet(log) : e.end = "halted" /\ e.hops = 1

\* C5: a chain that ended in a transport failure (a url.Error that is not
\* the sentinel, or an error of another type) makes testURL return the error
\* and no Site: one line on os.Stderr per such probe, none on os.Stdout.
C5_TransportFailureIsReported ==
    /\ \A e \in BagToSet(log) :
          e.end = "failed" => e.err # NoErr /\ e.code = 0
    /\ ProbeErrors = Ended({"failed"})
    /\ Len(stdout) + InFlight + Ended({"failed"}) <= BagCardinality(log)

C5_Witness ==
    /\ mainPc = "done"
    /\ \E e \in BagToSet(log) : e.end = "failed" /\ e.err.type = "other"
    /\ \E e \in BagToSet(log) :
          e.end = "failed" /\ e.err.type = "url.Error" /\ e.hops = 2
    /\ \E e \in BagToSet(log) : e.end = "failed" /\ e.hops = 0

\* The candidate URLs of the finished probes, as a bag.
RECURSIVE SitesOf(_)
SitesOf(es) ==
    IF es = {} THEN EmptyBag
    ELSE LET e == CHOOSE x \in es : TRUE
         IN  [x \in {e.site} |-> log[e]] (+) SitesOf(es \ {e})

\* The candidate URLs of the probes under way, as a bag.
RECURSIVE Probing(_)
Probing(ws) ==
    IF ws = {} THEN EmptyBag
    ELSE LET w == CHOOSE x \in ws : TRUE
         IN  (IF wpc[w] = "probing" THEN SetToBag({wsite[w]}) ELSE EmptyBag)
                 (+) Probing(ws \ {w})

\* C6: a probe error ends nothing but that probe: no checker terminates
\* before work is closed, the candidates taken so far are the first
\* candidates of the input, each taken once, and when main returns every
\* candidate has been probed.
C6_FailureIsLocal ==
    /\ \A w \in Workers : wpc[w] = "terminated" => workClosed
    /\ LET k == BagCardinality(log) + BagCardinality(Probing(Workers))
       IN  /\ k <= Len(Work)
           /\ SitesOf(BagToSet(log)) (+) Probing(Workers)
                 = SeqToBag(SubSeq(Work, 1, k))
    /\ mainPc = "done" => BagCardinality(log) = Len(Work)

C6_Witness ==
    /\ mainPc = "done"
    /\ poolSize = 1
    /\ Ended({"failed"}) = 2
    /\ Len(stdout) = 2
    /\ Len(Work) = 4

\* C7: ResponseURL is present exactly when the last response carries a
\* Location header and its status is in the redirect class.
C7_ResponseURLOnlyForRedirectStatus ==
    \A w \in Workers :
        wpc[w] = "sending" =>
            LET s == wres[w][1]
            IN  (s.ResponseURL # <<>>)
                    <=> /\ server[s.RequestURL].Location # <<>>
                        /\ s.StatusCode \in 300..399

C10_PipelineTerminates ==
    (\A w \in Workers : []<>(wpc[w] # "probing"))
        => <>(/\ mainPc = "done"
              /\ workClosed
              /\ \A w \in 1..poolSize : wpc[w] = "terminated"
              /\ wrpc = "exited"
              /\ Work = <<>> => stdout = <<>>)

C10_Witness ==
    /\ mainPc = "done"
    /\ srcOpen
    /\ input = <<>>
    /\ poolSize = MaxPool
    /\ stdout = <<>>

\* Every URL of host h fails to resolve.
HostFailsDNS(h) ==
    \A u \in URLs : u.Host = h => server[u].err = UrlError("no such host")

\* How often x occurs in the sequence q.
Occurrences(q, x) == Cardinality({i \in 1..Len(q) : q[i] = x})

\* The finished probes of candidate URL site whose testURL returned an
\* error (failed = TRUE) or a Site (failed = FALSE).
Outcomes(site, failed) ==
    LET es == {e \in BagToSet(log) :
                  e.site = site /\ (e.err # NoErr) = failed}
    IN  BagCardinality([e \in es |-> log[e]])

\* The same, summed over the candidate URLs of hostname h.
RECURSIVE HostOutcomes(_, _, _)
HostOutcomes(h, failed, i) ==
    IF i = 0 THEN 0
    ELSE Outcomes(formatURL(protocols[i], h), failed)
             + HostOutcomes(h, failed, i - 1)

\* C11 as stated: when main returns, a hostname named on one line of the
\* input, every probe of which fails to resolve, has put one line on
\* os.Stderr and none on os.Stdout.
C11_OneDiagnosticPerHostname ==
    mainPc = "done" =>
        \A h \in Hosts :
            HostFailsDNS(h)
            /\ Occurrences(Work, formatURL(protocols[1], h)) = 1
            => /\ HostOutcomes(h, TRUE, Len(protocols)) = 1
               /\ HostOutcomes(h, FALSE, Len(protocols)) = 0

\* C11, amended: a hostname every probe of which fails to resolve never
\* yields a Site, and yields one line on os.Stderr per candidate URL, that
\* is one per protocol and line naming it; every line on os.Stderr besides
\* the reader's is such a failed probe, and when main returns every
\* candidate URL of the input, of whatever hostname, has had its probe.
C11_OneDiagnosticPerCandidate ==
    /\ ProbeErrors = Ended({"failed"})
    /\ \A h \in Hosts : HostFailsDNS(h) =>
          /\ HostOutcomes(h, FALSE, Len(protocols)) = 0
          /\ \A i \in 1..Len(protocols) :
                LET site == formatURL(protocols[i], h)
                IN  /\ Outcomes(site, TRUE) <= Occurrences(Work, site)
                    /\ mainPc = "done" =>
                          Outcomes(site, TRUE) = Occurrences(Work, site)
    /\ mainPc = "done" => BagCardinality(log) = Len(Work)

\* Both probes of hostname a have failed, both probes of hostname b have
\* given a line, and main has returned.
C11_Witness ==
    /\ mainPc = "done"
    /\ poolSize = MaxPool
    /\ HostFailsDNS("a")
    /\ HostOutcomes("a", TRUE, Len(protocols)) = 2
    /\ stderr = <<ErrorLine(UrlError("no such host")),
                  ErrorLine(UrlError("no such host"))>>
    /\ Len(stdout) = 2

\* C12: no candidate URL handed over on work has an empty hostname: neither
\* "http:///" nor "https:///" is ever sent, whatever blank lines or final
\* newline the input has.
C12_NoEmptyHostnameCandidate ==
    \A i \in 1..Len(sent) :
        \A k \in 1..Len(protocols) : sent[i] # formatURL(protocols[k], "")

\* C13: the line Site.String returns is the request URL in full (scheme,
\* "://", host, path), a comma, the status in decimal, a comma, and the
\* response URL in full or nothing when there is none; so (http://a/, 200,
\* nil) gives "http://a/,200," and (http://a/, 301, https://b/) gives
\* "http://a/,301,https://b/".
C13_LineHasFullRequestURL ==
    tLine # <<>> =>
        LET req  == tSite.RequestURL
            code == CASE tSite.StatusCode = 200 -> "200"
                      [] tSite.StatusCode = 301 -> "301"
                      [] tSite.StatusCode = 404 -> "404"
            head == req.Scheme \o "://" \o req.Host \o req.Path
                        \o "," \o code \o ","
        IN  /\ tSite.ResponseURL = <<>> => tLine[1] = head
            /\ tSite.ResponseURL # <<>> =>
                  LET loc == tSite.ResponseURL[1]
                  IN  tLine[1] = head \o loc.Scheme \o "://" \o loc.Host
                                     \o loc.Path
            /\ (tSite.ResponseURL = <<>>) <=> (Len(tLine[1]) = Len(head))
            /\ tSite = [RequestURL |-> U("http", "a", "/"), StatusCode |-> 200,
                        ResponseURL |-> <<>>]
                  => tLine[1] = "http://a/,200,"
            /\ tSite = [RequestURL |-> U("http", "a", "/"), StatusCode |-> 301,
                        ResponseURL |-> <<U("https", "b", "/")>>]
                  => tLine[1] = "http://a/,301,https://b/"

\* C14: when the source cannot be opened the run still ends: work is
\* closed with no candidate URL ever handed over, every checker started
\* terminates, result is closed, the writer exits and main returns, with
\* the reader's error the only line written.
C14_UnopenableSourceEndsRun ==
    ~srcOpen =>
        <>(/\ mainPc = "done"
           /\ workClosed
           /\ sent = <<>>
           /\ log = EmptyBag
           /\ \A w \in 1..poolSize : wpc[w] = "terminated"
           /\ resultClosed
           /\ wrpc = "exited"
           /\ stdout = <<>>
           /\ stderr = <<"error getting URLs: open">>)

\* main has returned from a run whose source holds hostnames but could not
\* be opened.
C14_Witness ==
    /\ ~srcOpen
    /\ input # <<>>
    /\ poolSize = MaxPool
    /\ mainPc = "done"
    /\ workClosed
    /\ sent = <<>>
    /\ stdout = <<>>

\* C15: under StopOnFirstRedirect c.Get sends one request, the candidate
\* URL, and no second one; the Site testURL returns has that URL, the
\* status of the response to it and, when that response is a redirect, its
\* Location as ResponseURL. (A candidate URL the client refuses is not
\* requested at all.)
C15_StopOnFirstStaysAtHopZero ==
    policy = "StopOnFirst" =>
        /\ \A w \in Workers :
              wpc[w] = "probing" =>
                  via[w] = <<>> /\ wreq[w] = ParseURL(wsite[w])
        /\ \A e \in BagToSet(log) :
              e.hops = IF ParseURL(e.site) = <<>> THEN 0 ELSE 1
        /\ \A w \in Workers :
              wpc[w] = "sending" =>
                  LET u == ParseURL(wsite[w])[1]
                      r == wres[w][1]
                  IN  /\ r.RequestURL = u
                      /\ r.StatusCode = server[u].StatusCode
                      /\ shouldRedirect(server[u].StatusCode)
                            => r.ResponseURL = server[u].Location

\* Under StopOnFirstRedirect a checker holds the Site of a 301 whose
\* Location was not followed.
C15_Witness ==
    /\ policy = "StopOnFirst"
    /\ \E w \in Workers :
          /\ wpc[w] = "sending"
          /\ wsite[w] = "http://b/"
          /\ wres[w][1].StatusCode = 301
          /\ wres[w][1].ResponseURL = <<U("https", "b", "/")>>
          /\ \E e \in BagToSet(log) :
                e.site = "http://b/" /\ e.hops = 1 /\ e.end = "halted"

\* Whether character c is not white space.
NotBlank(c) == c \notin Cutset

\* The hostnames the text cs names, in order: the lines of cs, each without
\* its white space, those that are then empty left out.
RECURSIVE Hostnames(_)
Hostnames(cs) ==
    IF cs = <<>> THEN <<>>
    ELSE LET ends == {i \in 1..Len(cs) : cs[i] = "\n"}
             n    == IF ends = {} THEN Len(cs)
                     ELSE CHOOSE i \in ends : \A j \in ends : i <= j
             h    == Str(SelectSeq(SubSeq(cs, 1, n), NotBlank))
         IN  (IF h = "" THEN <<>> ELSE <<h>>)
                 \o Hostnames(SubSeq(cs, n + 1, Len(cs)))

\* Per hostname, "http://" + hostname + "/" then "https://" + hostname + "/".
RECURSIVE Expansion(_)
Expansion(hs) ==
    IF hs = <<>> THEN <<>>
    ELSE <<"http://" \o Head(hs) \o "/", "https://" \o Head(hs) \o "/">>
             \o Expansion(Tail(hs))

\* Whether candidate URL site has a hostname.
Named(site) == site \notin {"http:///", "https:///"}

\* C16: the candidate URLs with a hostname handed over on work are, in
\* order, those of the hostname lines of the input in input order, per line
\* "http://" + hostname + "/" then "https://" + hostname + "/", each once;
\* work is closed by the reader's last step, when all of them have been
\* handed over, and nothing is handed over after that.
C16_CandidatesInInputOrder ==
    LET named    == SelectSeq(sent, Named)
        expected == Expansion(Hostnames(input))
    IN  /\ Len(named) <= Len(expected)
        /\ named = SubSeq(expected, 1, Len(named))
        /\ workClosed <=> rpc = "closed"
        /\ srcOpen /\ workClosed => named = expected

\* The two lines of the input have been expanded, in order, and work is
\* closed.
C16_Witness ==
    /\ input = <<"a", "\n", "b">>
    /\ workClosed
    /\ sent = <<"http://a/", "https://a/", "http://b/", "https://b/">>

\* The checkers that hold a candidate URL: testURL is under way, or its
\* Site waits to be received by the writer.
Busy == {w \in Workers : wpc[w] \in {"probing", "sending"}}

\* The candidate URLs taken from work whose outcome has not been delivered:
\* neither an error line written nor a Site received by the writer.
Undelivered ==
    Len(sent) - ProbeErrors - Len(stdout) - (IF wrpc = "write" THEN 1 ELSE 0)

\* C17: the candidate URLs taken from work and not yet delivered are those
\* held by the checkers, at most one each, so at most poolSize of them and
\* at most poolSize probes under way; the reader offers at most one
\* candidate URL, the next of the input, and has read nothing beyond the
\* line that candidate comes from.
C17_AtMostPoolSizeInFlight ==
    /\ Undelivered = Cardinality(Busy)
    /\ Undelivered <= poolSize
    /\ Cardinality({w \in Workers : wpc[w] = "probing"}) <= poolSize
    /\ srcOpen /\ rpc = "send" =>
          /\ Len(sent) < Len(Work)
          /\ Work[Len(sent) + 1] = formatURL(protocols[rprot], Str(Trim(rsite)))
          /\ Len(sent) + (Len(protocols) - rprot + 1)
                 + (IF rerr THEN 0 ELSE Len(Candidates(rest))) = Len(Work)
    /\ srcOpen /\ rpc = "read" => Len(sent) + Len(Candidates(rest)) = Len(Work)
    /\ rpc \in {"close", "closed"} => Len(sent) = Len(Work)

\* Every checker of the largest pool holds a candidate URL and the reader
\* is blocked offering the next one.
C17_Witness ==
    /\ poolSize = MaxPool
    /\ Cardinality(Busy) = poolSize
    /\ Undelivered = poolSize
    /\ rpc = "send"

\* Whether the n responses that follow a request for u are all redirects
\* with a Location.
RECURSIVE RedirectsOn(_, _)
RedirectsOn(u, n) ==
    \/ n = 0
    \/ /\ server[u].err = NoErr
       /\ shouldRedirect(server[u].StatusCode)
       /\ server[u].Location # <<>>
       /\ RedirectsOn(server[u].Location[1], n - 1)

\* Whether the redirects that start at candidate URL site run into a cycle:
\* more redirects follow one another than there are URLs.
Cyclic(site) ==
    /\ ParseURL(site) # <<>>
    /\ RedirectsOn(ParseURL(site)[1], Cardinality(URLs))

\* C18: under FollowAllRedirects c.Get returns only on a response that is
\* not a redirect or on a transport failure, never because the policy
\* stopped it; so once a candidate URL whose redirects form a cycle has
\* been taken, in every later state its probe is still under way with a
\* further request to send, its checker has not terminated, result is not closed, the writer has not
\* exited and main has not returned.
C18_FollowAllNeverLeavesACycle ==
    policy = "FollowAll" =>
        /\ \A e \in BagToSet(log) : e.end \in {"final", "failed"}
        /\ \A i \in 1..Len(sent) :
              Cyclic(sent[i]) =>
                  /\ \E w \in Workers :
                        /\ wpc[w] = "probing"
                        /\ wsite[w] = sent[i]
                        /\ wreq[w] # <<>>
                        /\ ~ClientDo(policy, server, wreq[w][1], via[w]).done
                  /\ \A e \in BagToSet(log) : e.site # sent[i]
                  /\ ~resultClosed
                  /\ wrpc # "exited"
                  /\ mainPc \in {"spawn", "waitWorkers"}

\* Under FollowAllRedirects a checker has followed the cycle of http://b/
\* as far as the chain is explored, while the other candidate URL of the
\* input has had its probe, work is closed and the other checker has
\* terminated; main still waits for the checkers.
C18_Witness ==
    /\ policy = "FollowAll"
    /\ poolSize > 1
    /\ workClosed
    /\ Len(sent) = Len(Work)
    /\ BagCardinality(log) = Len(Work) - 1
    /\ mainPc = "waitWorkers"
    /\ \E w \in Workers :
          /\ wpc[w] = "probing"
          /\ Cyclic(wsite[w])
          /\ Len(via[w]) = MaxHops
          /\ \A x \in (1..poolSize) \ {w} : wpc[x] = "terminated"
====
